---- MODULE Spec2Model ----
(***************************************************************************)
(* A model of foonathan::memory's memory_stack and stack_allocator         *)
(* (src/stack_allocator.hpp).                                              *)
(*                                                                         *)
(* memory_stack keeps a bump pointer cur_ and the end cur_end_ of the      *)
(* block it allocates from; blocks come from a detail::block_list, whose   *)
(* code is not part of the sources at hand and is modelled from its        *)
(* described interface (allocate / deallocate / size / next_block_size).   *)
(* Addresses and sizes are naturals; std::size_t arithmetic is taken       *)
(* modulo SizeModulus.                                                     *)
(***************************************************************************)
EXTENDS Integers, Sequences, FiniteSets, TLC

VARIABLES
    list_,            \* block_list: the chain of blocks in use, oldest first
    cur_block_size_,  \* block_list: size of the block the next allocate() yields
    heap_,            \* the heap below the block list: where it places a block
    cur_,             \* memory_stack::cur_
    cur_end_,         \* memory_stack::cur_end_
    status,           \* "ok", or how the process left the defined behaviour
    op,               \* the call that produced this state
    ret,              \* what that call returned
    markers,          \* the markers the caller holds, oldest first
    live              \* the ranges allocate returned that the caller may still
                      \* use, oldest first (kept by the program of SpecLive)

vars == <<list_, cur_block_size_, heap_, cur_, cur_end_, status, op, ret, markers, live>>

----------------------------------------------------------------------------
(* Bounds of the model *)

\* allocate is called with sizes 0..MaxSize
MaxSize == 3
\* allocate is called with alignments 2^0 .. 2^MaxAlignLog
MaxAlignLog == 2
\* the block list holds at most MaxBlocks blocks
MaxBlocks == 2
\* the caller holds at most MaxMarkers markers
MaxMarkers == 1
\* the heap spans the addresses max_alignment * (1..HeapSlots)
HeapSlots == 8
\* std::size_t values are taken modulo SizeModulus
SizeModulus == 65536
\* the program that keeps track of its memory uses at most MaxLive ranges at
\* a time
MaxLive == 4

\* the block sizes memory_stack is constructed with
InitBlockSizes == {1, 4}

Sizes == 0..MaxSize
Alignments == {2^k : k \in 0..MaxAlignLog}

----------------------------------------------------------------------------
(* detail::block_list and the heap under it *)

\* every block starts at an address aligned for any type
max_alignment == 16

\* geometric growth of the block size: each block of the chain is
\* growth_factor times as large as the one before it
growth_factor == 2

Overlaps(b1, b2) ==
    /\ b1.memory < b2.memory + b2.size
    /\ b2.memory < b1.memory + b1.size

\* the heaps: one places a block at the lowest free address, one at the highest
Heaps == {"low", "high"}

\* what the heap returns for a request of size bytes while the blocks of used
\* are live: a free, max_alignment-aligned region
heap_allocate(heap, used, size) ==
    LET free == { a \in { max_alignment * k : k \in 1..HeapSlots } :
                    /\ a + size <= max_alignment * (HeapSlots + 1)
                    /\ \A j \in 1..Len(used) :
                            ~Overlaps([memory |-> a, size |-> size], used[j]) }
    IN  { [memory |-> a, size |-> size] :
            a \in { x \in free : IF heap = "low" THEN \A y \in free : x <= y
                                               ELSE \A y \in free : y <= x } }

\* block_list::allocate(): the blocks it may return (none beyond the bounds of
\* the model)
list_allocate(heap, used, block_size) ==
    IF Len(used) < MaxBlocks
    THEN heap_allocate(heap, used, block_size)
    ELSE {}

\* the block size after block_list::allocate()
list_grow(block_size) == block_size * growth_factor

\* block_list::deallocate(): releases the most recently acquired block
list_deallocate(used) == SubSeq(used, 1, Len(used) - 1)

\* the block size after block_list::deallocate(): the next block is again as
\* large as the one released
list_shrink(block_size) == block_size \div growth_factor

\* block_list::size()
list_size(used) == Len(used)

\* block_list::next_block_size()
list_next_block_size(block_size) == block_size

----------------------------------------------------------------------------
(* memory_stack *)

RECURSIVE BitAnd(_, _)
BitAnd(x, y) ==
    IF x = 0 \/ y = 0 THEN 0
    ELSE (x % 2) * (y % 2) + 2 * BitAnd(x \div 2, y \div 2)

\* memory_stack::capacity()
capacity(cur, cur_end) == (cur_end - cur) % SizeModulus

\* memory_stack::next_capacity()
next_capacity(block_size) == list_next_block_size(block_size)

\* memory_stack::align_offset()
align_offset(cur, alignment) ==
    LET address == cur
        misaligned == BitAnd(address, (alignment - 1) % SizeModulus)
    IN  (misaligned * ((alignment - misaligned) % SizeModulus)) % SizeModulus

NoMarker == [index |-> 0, cur |-> 0, cur_end |-> 0]
Void == [kind |-> "void", ptr |-> 0, marker |-> NoMarker]
Pointer(p) == [kind |-> "pointer", ptr |-> p, marker |-> NoMarker]
Marker(m) == [kind |-> "marker", ptr |-> 0, marker |-> m]
SizeT(n) == [kind |-> "size", ptr |-> 0, marker |-> NoMarker, value |-> n]

\* the state of a memory_stack object
Stack ==
    [list |-> list_, block_size |-> cur_block_size_, heap |-> heap_,
     cur |-> cur_, cur_end |-> cur_end_]

\* allocate_block() with cur_end_ computed from the size of the block after
\* the one acquired
allocate_block_grown_end(st) ==
    { [list |-> Append(st.list, block),
       block_size |-> list_grow(st.block_size),
       heap |-> st.heap,
       cur |-> block.memory,
       cur_end |-> block.memory + list_grow(block.size)] :
        block \in list_allocate(st.heap, st.list, st.block_size) }

\* memory_stack::allocate_block(): the stack after it, for every block the
\* list may supply
allocate_block(st) ==
    { [list |-> Append(st.list, block),
       block_size |-> list_grow(st.block_size),
       heap |-> st.heap,
       cur |-> block.memory,
       cur_end |-> block.memory + block.size] :
        block \in list_allocate(st.heap, st.list, st.block_size) }

\* the tail of allocate without cur_ += offset: the pointer is aligned, the
\* cursor is bumped from where it was
bump_from_unaligned(st, offset, size, how) ==
    [st |-> [st EXCEPT !.cur = st.cur + size],
     ret |-> Pointer(st.cur + offset),
     status |-> how]

\* the tail of allocate without cur_ += size
bump_without_size(st, offset, size, how) ==
    [st |-> [st EXCEPT !.cur = st.cur + offset],
     ret |-> Pointer(st.cur + offset),
     status |-> how]

\* the tail of allocate: cur_ += offset; memory = cur_; cur_ += size; return memory
bump(st, offset, size, how) ==
    [st |-> [st EXCEPT !.cur = st.cur + offset + size],
     ret |-> Pointer(st.cur + offset),
     status |-> how]

\* allocate after allocate_block(): the assertion "block size too small"
\* aborts a debug build; a build with NDEBUG goes on and moves cur_ past
\* cur_end_
allocate_in_new_block(st, size, alignment) ==
    LET offset == align_offset(st.cur, alignment)
    IN  IF (offset + size) % SizeModulus <= capacity(st.cur, st.cur_end)
        THEN { bump(st, offset, size, "ok") }
        ELSE { [st |-> st, ret |-> Void, status |-> "assert_failed"],
               bump(st, offset, size, "overrun") }

\* memory_stack::allocate(): every outcome of the call on stack st
allocate(st, size, alignment) ==
    LET offset == align_offset(st.cur, alignment)
    IN  IF (offset + size) % SizeModulus > capacity(st.cur, st.cur_end)
        THEN UNION { allocate_in_new_block(st1, size, alignment) : st1 \in allocate_block(st) }
        ELSE { bump(st, offset, size, "ok") }

\* top() with the number of blocks for the index of the last one
top_block_count(st) ==
    [index |-> list_size(st.list) % SizeModulus, cur |-> st.cur, cur_end |-> st.cur_end]

\* memory_stack::top()
top(st) == [index |-> (list_size(st.list) - 1) % SizeModulus, cur |-> st.cur, cur_end |-> st.cur_end]

\* the loop of unwind: n times list_.deallocate()
RECURSIVE deallocate_times(_, _)
deallocate_times(l, n) ==
    IF n = 0 THEN l
    ELSE deallocate_times([list |-> list_deallocate(l.list),
                           block_size |-> list_shrink(l.block_size)], n - 1)

\* unwind() that releases no block
unwind_keeps_blocks(st, m) ==
    [st EXCEPT !.cur = m.cur, !.cur_end = m.cur_end]

\* unwind() that releases one block more
unwind_one_more(st, m) ==
    LET diff == (list_size(st.list) - m.index) % SizeModulus
        l == deallocate_times([list |-> st.list, block_size |-> st.block_size], diff)
    IN  [st EXCEPT !.list = l.list, !.block_size = l.block_size,
                   !.cur = m.cur, !.cur_end = m.cur_end]

\* unwind() that leaves cur_end_ as it is
unwind_keeps_end(st, m) ==
    LET diff == (list_size(st.list) - m.index - 1) % SizeModulus
        l == deallocate_times([list |-> st.list, block_size |-> st.block_size], diff)
    IN  [st EXCEPT !.list = l.list, !.block_size = l.block_size, !.cur = m.cur]

\* unwind() that leaves cur_ as it is
unwind_keeps_cur(st, m) ==
    LET diff == (list_size(st.list) - m.index - 1) % SizeModulus
        l == deallocate_times([list |-> st.list, block_size |-> st.block_size], diff)
    IN  [st EXCEPT !.list = l.list, !.block_size = l.block_size, !.cur_end = m.cur_end]

\* unwind() that leaves the stack alone when the marker is ahead of cur_
unwind_ignores_ahead(st, m) ==
    LET diff == (list_size(st.list) - m.index - 1) % SizeModulus
        l == deallocate_times([list |-> st.list, block_size |-> st.block_size], diff)
    IN  IF diff = 0 /\ m.cur > st.cur THEN st
        ELSE [st EXCEPT !.list = l.list, !.block_size = l.block_size,
                        !.cur = m.cur, !.cur_end = m.cur_end]

\* memory_stack::unwind()
unwind(st, m) ==
    LET diff == (list_size(st.list) - m.index - 1) % SizeModulus
        l == deallocate_times([list |-> st.list, block_size |-> st.block_size], diff)
    IN  [st EXCEPT !.list = l.list, !.block_size = l.block_size,
                   !.cur = m.cur, !.cur_end = m.cur_end]

----------------------------------------------------------------------------
(* stack_allocator, which refers to the memory_stack *)

\* allocate_node() that passes its arguments on in the wrong order
allocate_node_swapped(st, size, alignment) == allocate(st, alignment, size)

\* stack_allocator::allocate_node()
allocate_node(st, size, alignment) == allocate(st, size, alignment)

\* deallocate_node() that moves the cursor back to the node
deallocate_node_rewinds(st, ptr, size, alignment) == [st EXCEPT !.cur = ptr]

\* stack_allocator::deallocate_node()
deallocate_node(st, ptr, size, alignment) == st

\* max_node_size() that reports what is left of the current block
max_node_size_capacity(st) == capacity(st.cur, st.cur_end)

\* stack_allocator::max_node_size()
max_node_size(st) == next_capacity(st.block_size)

\* stack_allocator::max_array_size()
max_array_size(st) == next_capacity(st.block_size)

----------------------------------------------------------------------------
(* The caller's markers.  Each is kept with a record of the moment it was   *)
(* taken: the block list, cur_ and cur_end_ then, what was called since     *)
(* ("nothing", only "allocate", or "other" calls) and, as long as that is   *)
(* not "other", the number of blocks acquired since.                        *)

Held(m, st) ==
    [m |-> m,
     list |-> st.list,
     cur |-> st.cur,
     cur_end |-> st.cur_end,
     acquired |-> 0,
     since |-> "nothing",
     live |-> Len(live)]

\* a marker the caller may unwind to: the stack has not been unwound to a
\* marker taken before it.  One it has been unwound past is kept as
\* "unwound", or as "released" when its block was released
Usable(h) == h.since \notin {"unwound", "released"}

\* the markers after an allocate call that took the list from n0 to n1 blocks
AfterAllocate(n0, n1) ==
    [i \in 1..Len(markers) |->
        IF markers[i].since = "other" \/ ~Usable(markers[i]) THEN markers[i]
        ELSE [markers[i] EXCEPT !.acquired = @ + (n1 - n0), !.since = "allocate"]]

\* the markers after a call that is no allocate
AfterOther(held) ==
    [i \in 1..Len(held) |->
        IF Usable(held[i]) THEN [held[i] EXCEPT !.since = "other", !.acquired = 0]
        ELSE held[i]]

\* a marker after the stack was unwound to a marker of block index, taken
\* before it
Passed(h, index) ==
    IF h.m.index > index THEN [h EXCEPT !.since = "released", !.acquired = 0]
    ELSE IF h.since = "released" THEN h
    ELSE [h EXCEPT !.since = "unwound", !.acquired = 0]

\* a call: its name, its arguments size and alignment (allocate) or the
\* marker it was given (unwind: the place of the marker among those held, and
\* what was called since that marker was taken), and the change of the
\* number of blocks
Call(name, size, alignment, marker, since, blocks) ==
    [name |-> name, size |-> size, alignment |-> alignment, marker |-> marker,
     since |-> since, blocks |-> blocks]

Install(st) ==
    /\ list_' = st.list
    /\ cur_block_size_' = st.block_size
    /\ heap_' = st.heap
    /\ cur_' = st.cur
    /\ cur_end_' = st.cur_end

----------------------------------------------------------------------------
(* Construction and the calls *)

Empty == [list |-> << >>, block_size |-> 0, heap |-> "low", cur |-> 0, cur_end |-> 0]

\* memory_stack::memory_stack(block_size): list_(block_size), allocate_block()
Init ==
    \E block_size \in InitBlockSizes, heap \in Heaps :
        \E st \in allocate_block([Empty EXCEPT !.block_size = block_size, !.heap = heap]) :
            /\ list_ = st.list
            /\ cur_block_size_ = st.block_size
            /\ heap_ = st.heap
            /\ cur_ = st.cur
            /\ cur_end_ = st.cur_end
            /\ status = "ok"
            /\ op = Call("memory_stack", block_size, 1, 0, "none", 1)
            /\ ret = Void
            /\ markers = << >>
            /\ live = << >>

Allocate(size, alignment) ==
    /\ status = "ok"
    /\ \E o \in allocate(Stack, size, alignment) :
        /\ Install(o.st)
        /\ status' = o.status
        /\ ret' = o.ret
        /\ markers' = AfterAllocate(Len(list_), Len(o.st.list))
        /\ op' = Call("allocate", size, alignment, 0, "none", Len(o.st.list) - Len(list_))
    /\ UNCHANGED live

AllocateNode(size, alignment) ==
    /\ status = "ok"
    /\ \E o \in allocate_node(Stack, size, alignment) :
        /\ Install(o.st)
        /\ status' = o.status
        /\ ret' = o.ret
        /\ markers' = AfterAllocate(Len(list_), Len(o.st.list))
        /\ op' = Call("allocate_node", size, alignment, 0, "none", Len(o.st.list) - Len(list_))
    /\ UNCHANGED live

Top ==
    /\ status = "ok"
    /\ Len(markers) < MaxMarkers
    /\ Install(Stack)
    /\ status' = "ok"
    /\ ret' = Marker(top(Stack))
    /\ markers' = Append(AfterOther(markers), Held(top(Stack), Stack))
    /\ op' = Call("top", 0, 1, 0, "none", 0)
    /\ UNCHANGED live

\* unwind to the i-th marker held; the markers taken after it are ahead of
\* the stack from then on and are dropped
Unwind(i) ==
    /\ status = "ok"
    /\ i \in 1..Len(markers)
    /\ Install(unwind(Stack, markers[i].m))
    /\ status' = "ok"
    /\ ret' = Void
    /\ markers' = AfterOther(SubSeq(markers, 1, i))
    /\ op' = Call("unwind", 0, 1, i, markers[i].since, Len(list_') - Len(list_))
    /\ UNCHANGED live

\* the arguments deallocate_node is called with
NodePointers == {cur_, ret.ptr}
NodeSizes == {0, MaxSize}
NodeAlignments == {1, 2^MaxAlignLog}

DeallocateNode(ptr, size, alignment) ==
    /\ status = "ok"
    /\ Install(deallocate_node(Stack, ptr, size, alignment))
    /\ status' = "ok"
    /\ ret' = Void
    /\ markers' = AfterOther(markers)
    /\ op' = Call("deallocate_node", 0, 1, 0, "none", 0)
    /\ UNCHANGED live

\* a program that calls the memory_stack itself
Next ==
    \/ \E size \in Sizes, alignment \in Alignments : Allocate(size, alignment)
    \/ Top
    \/ \E i \in 1..MaxMarkers : Unwind(i)

Spec == Init /\ [][Next]_vars

\* a program that allocates through a stack_allocator and unwinds the
\* memory_stack it refers to
NextNode ==
    \/ \E size \in Sizes, alignment \in Alignments : AllocateNode(size, alignment)
    \/ \E ptr \in NodePointers, size \in NodeSizes, alignment \in NodeAlignments :
            DeallocateNode(ptr, size, alignment)
    \/ Top
    \/ \E i \in 1..MaxMarkers : Unwind(i)

SpecNode == Init /\ [][NextNode]_vars

MaxNodeSize ==
    /\ status = "ok"
    /\ Install(Stack)
    /\ status' = "ok"
    /\ ret' = SizeT(max_node_size(Stack))
    /\ markers' = AfterOther(markers)
    /\ op' = Call("max_node_size", 0, 1, 0, "none", 0)
    /\ UNCHANGED live

MaxArraySize ==
    /\ status = "ok"
    /\ Install(Stack)
    /\ status' = "ok"
    /\ ret' = SizeT(max_array_size(Stack))
    /\ markers' = AfterOther(markers)
    /\ op' = Call("max_array_size", 0, 1, 0, "none", 0)
    /\ UNCHANGED live

\* a program that asks the stack_allocator for its maximum sizes between
\* the allocations
NextSize ==
    \/ \E size \in Sizes, alignment \in Alignments : AllocateNode(size, alignment)
    \/ MaxNodeSize
    \/ MaxArraySize
    \/ Top
    \/ \E i \in 1..MaxMarkers : Unwind(i)

SpecSize == Init /\ [][NextSize]_vars

\* the sizes and alignments of the objects the programs below allocate
ObjectSizes == {1, MaxSize}
ObjectAlignments == Alignments

\* the markers of a program that takes a marker m1 and, later, a marker m2
NestedMarkers == <<"m1", "m2">>

\* top() of that program
TopNested ==
    /\ status = "ok"
    /\ Len(markers) < Len(NestedMarkers)
    /\ Install(Stack)
    /\ status' = "ok"
    /\ ret' = Marker(top(Stack))
    /\ markers' = Append(AfterOther(markers), Held(top(Stack), Stack))
    /\ op' = Call("top", 0, 1, 0, "none", 0)
    /\ UNCHANGED live

\* unwind to the i-th marker held, which the caller may use; the caller
\* keeps the markers taken after it
UnwindNested(i) ==
    /\ status = "ok"
    /\ i \in 1..Len(markers)
    /\ Usable(markers[i])
    /\ Install(unwind(Stack, markers[i].m))
    /\ status' = "ok"
    /\ ret' = Void
    /\ markers' = [k \in 1..Len(markers) |->
                        IF k <= i THEN AfterOther(markers)[k]
                        ELSE Passed(markers[k], markers[i].m.index)]
    /\ op' = Call("unwind", 0, 1, i, markers[i].since, Len(list_') - Len(list_))
    /\ UNCHANGED live

\* the marker's block was released
Stale(h) == h.since = "released"

\* the marker is ahead of the stack
Ahead(h) ==
    \/ h.m.index > list_size(list_) - 1
    \/ h.m.index = list_size(list_) - 1 /\ h.m.cur > cur_

\* unwind with m.index > list_.size() - 1: diff wraps around and the loop
\* calls list_.deallocate() more often than the list has blocks, which the
\* list does not define; the process stops there or goes on to the
\* assignments
unwind_wrapped(st, m) ==
    LET l == deallocate_times([list |-> st.list, block_size |-> st.block_size],
                              list_size(st.list))
        emptied == [st EXCEPT !.list = l.list, !.block_size = l.block_size]
    IN  { emptied, [emptied EXCEPT !.cur = m.cur, !.cur_end = m.cur_end] }

\* unwind to a marker the caller must not use any more: stale or ahead.
\* unwind() has no check; the process is outside the contract from then on
UnwindMisused(j) ==
    /\ status = "ok"
    /\ j \in 1..Len(markers)
    /\ ~Usable(markers[j])
    /\ Stale(markers[j]) \/ Ahead(markers[j])
    /\ IF markers[j].m.index <= list_size(list_) - 1
       THEN /\ Install(unwind(Stack, markers[j].m))
            /\ status' = "misused"
       ELSE /\ \E st \in unwind_wrapped(Stack, markers[j].m) : Install(st)
            /\ status' = "undefined"
    /\ ret' = Void
    /\ markers' = markers
    /\ op' = Call("unwind", 0, 1, j, markers[j].since, Len(list_') - Len(list_))
    /\ UNCHANGED live

\* a program that takes m1, then m2, and unwinds to either of them, also to
\* m2 after it has unwound past it
NextNested ==
    \/ \E size \in ObjectSizes, alignment \in ObjectAlignments : Allocate(size, alignment)
    \/ TopNested
    \/ \E i \in DOMAIN NestedMarkers : UnwindNested(i)
    \/ \E j \in DOMAIN NestedMarkers : UnwindMisused(j)

SpecNested == Init /\ [][NextNested]_vars

\* the bytes of a range
Range(ptr, size) == [memory |-> ptr, size |-> size]

\* allocate of a program that keeps track of the memory it was given; a
\* range of no bytes is not kept
AllocateLive(size, alignment) ==
    /\ status = "ok"
    /\ Len(live) < MaxLive
    /\ \E o \in allocate(Stack, size, alignment) :
        /\ Install(o.st)
        /\ status' = o.status
        /\ ret' = o.ret
        /\ markers' = AfterAllocate(Len(list_), Len(o.st.list))
        /\ op' = Call("allocate", size, alignment, 0, "none", Len(o.st.list) - Len(list_))
        /\ live' = IF o.ret.kind = "pointer" /\ size > 0
                   THEN Append(live, Range(o.ret.ptr, size))
                   ELSE live

\* unwind of that program: what was allocated after the marker was taken is
\* given up
UnwindLive(i) ==
    /\ status = "ok"
    /\ i \in 1..Len(markers)
    /\ Install(unwind(Stack, markers[i].m))
    /\ status' = "ok"
    /\ ret' = Void
    /\ markers' = AfterOther(SubSeq(markers, 1, i))
    /\ op' = Call("unwind", 0, 1, i, markers[i].since, Len(list_') - Len(list_))
    /\ live' = SubSeq(live, 1, markers[i].live)

\* a program that uses the memory it allocates until it unwinds past it
NextLive ==
    \/ \E size \in ObjectSizes, alignment \in ObjectAlignments : AllocateLive(size, alignment)
    \/ Top
    \/ \E i \in 1..MaxMarkers : UnwindLive(i)

SpecLive == Init /\ [][NextLive]_vars

\* an alignment stricter than the one the blocks start at
OverAlignment == 2 * max_alignment

OverAlignments == {1, OverAlignment}

\* memory_stack::memory_stack(OverAlignment)
InitOver ==
    \E heap \in Heaps :
        \E st \in allocate_block([Empty EXCEPT !.block_size = OverAlignment, !.heap = heap]) :
            /\ list_ = st.list
            /\ cur_block_size_ = st.block_size
            /\ heap_ = st.heap
            /\ cur_ = st.cur
            /\ cur_end_ = st.cur_end
            /\ status = "ok"
            /\ op = Call("memory_stack", OverAlignment, 1, 0, "none", 1)
            /\ ret = Void
            /\ markers = << >>
            /\ live = << >>

\* a program that allocates bytes and over-aligned objects
NextOver ==
    \E size \in Sizes, alignment \in OverAlignments : Allocate(size, alignment)

SpecOver == InitOver /\ [][NextOver]_vars

----------------------------------------------------------------------------
(* What the documentation says, stated over the model *)

\* the padding that aligns cursor cur to alignment
Padding(cur, alignment) ==
    IF cur % alignment = 0 THEN 0 ELSE alignment - (cur % alignment)

CeilDiv(n, d) == (n + d - 1) \div d

LastBlock(l) == l[Len(l)]

\* C1: every pointer allocate(size, alignment) returns is a multiple of
\* alignment, in the current block as well as in a block just acquired.
C1_ReturnsAligned ==
    (op.name = "allocate" /\ ret.kind = "pointer") => ret.ptr % op.alignment = 0

\* C2: m = top(), then allocate calls only, then unwind(m): the block list,
\* capacity(), cur_ and cur_end_ are those of the moment m was taken, and the
\* block count drops by the number of blocks acquired since.
C2_RoundTrip ==
    [][(op'.name = "unwind" /\ op'.since # "other") =>
        LET h == markers[op'.marker]
        IN  /\ list_' = h.list
            /\ Len(list_') = Len(h.list)
            /\ capacity(cur_', cur_end_') = capacity(h.cur, h.cur_end)
            /\ cur_' = h.cur
            /\ cur_end_' = h.cur_end
            /\ Len(list_) - Len(list_') = h.acquired]_vars

\* C2 happens: an unwind to a marker after allocations that acquired a block
C2_Witness ==
    /\ op.name = "unwind"
    /\ op.since = "allocate"
    /\ op.blocks < 0
    /\ status = "ok"

\* C3: unwind(top()) with no call in between changes nothing: block list,
\* cur_, cur_end_, capacity() and next_capacity() stay, no block is released.
C3_UnwindTopIsNoOp ==
    [][(op'.name = "unwind" /\ op'.since = "nothing") =>
        /\ list_' = list_
        /\ cur_' = cur_
        /\ cur_end_' = cur_end_
        /\ capacity(cur_', cur_end_') = capacity(cur_, cur_end_)
        /\ next_capacity(cur_block_size_') = next_capacity(cur_block_size_)]_vars

\* C3 happens: top() in the second block, then at once unwind to its marker
C3_Witness ==
    /\ op.name = "unwind"
    /\ op.since = "nothing"
    /\ Len(list_) = 2
    /\ cur_ > LastBlock(list_).memory

\* C4: an allocate call whose size and padding fit in the capacity left
\* acquires no block and returns a range that starts at or after the cursor
\* it found, so the ranges of such calls follow one another.
C4_FitsWithoutBlock ==
    [][(/\ op'.name = "allocate"
        /\ Padding(cur_, op'.alignment) + op'.size <= capacity(cur_, cur_end_)) =>
        /\ Len(list_') = Len(list_)
        /\ ret'.kind = "pointer"
        /\ ret'.ptr >= cur_
        /\ cur_' = ret'.ptr + op'.size]_vars

C6_SecondPointer ==
    [][(/\ op.name = "allocate"
        /\ op.blocks = 0
        /\ ret.ptr = LastBlock(list_).memory
        /\ ret.ptr % op.alignment = 0
        /\ op'.name = "allocate"
        /\ op'.alignment = op.alignment
        /\ op'.blocks = 0) =>
        ret'.ptr = ret.ptr + CeilDiv(op.size, op.alignment) * op.alignment]_vars

\* C7: unwind(m) with a marker of this stack releases block count - m.index
\* - 1 blocks, the most recent ones, keeps blocks 0..m.index as they are and
\* ends with m.index + 1 blocks and cur_, cur_end_ as saved in m.
C7_UnwindReleases ==
    [][(op'.name = "unwind") =>
        LET m == markers[op'.marker].m
        IN  /\ m.index <= Len(list_) - 1
            /\ Len(list_) - Len(list_') = Len(list_) - m.index - 1
            /\ list_' = SubSeq(list_, 1, m.index + 1)
            /\ Len(list_') = m.index + 1
            /\ cur_' = m.cur
            /\ cur_end_' = m.cur_end]_vars

\* C7 happens: an unwind that released a block and moved cur_end_
C7_Witness ==
    /\ op.name = "unwind"
    /\ op.blocks = -1
    /\ Len(list_) = 1
    /\ cur_ < cur_end_

\* C8: top() leaves the stack as it is and returns the marker
\* (block count - 1, cur_, cur_end_).
C8_TopIsPure ==
    [][(op'.name = "top") =>
        /\ Stack' = Stack
        /\ next_capacity(cur_block_size_') = next_capacity(cur_block_size_)
        /\ ret' = Marker([index |-> Len(list_) - 1, cur |-> cur_, cur_end |-> cur_end_])]_vars

\* C8 happens: top() called in the second block after an allocation
C8_Witness ==
    /\ op.name = "top"
    /\ ret.kind = "marker"
    /\ ret.marker.index = 1
    /\ ret.marker.cur > LastBlock(list_).memory

\* C9: deallocate_node leaves the stack as it is, whatever its arguments.
C9_DeallocateNodeIsNoOp ==
    [][(op'.name = "deallocate_node") =>
        /\ Stack' = Stack
        /\ Len(list_') = Len(list_)
        /\ capacity(cur_', cur_end_') = capacity(cur_, cur_end_)]_vars

\* C9 happens: deallocate_node called while memory of the block is handed out
C9_Witness ==
    /\ op.name = "deallocate_node"
    /\ cur_ > LastBlock(list_).memory
    /\ Len(list_) = 2

\* C10: allocate_node(size, alignment) does what allocate(size, alignment)
\* does from the same state: same pointer, same blocks, cur_ and cur_end_.
C10_AllocateNodeForwards ==
    [][(op'.name = "allocate_node") =>
        [st |-> Stack', ret |-> ret', status |-> status'] \in
            allocate(Stack, op'.size, op'.alignment)]_vars

\* C10 happens: allocate_node served from a block it had acquired
C10_Witness ==
    /\ op.name = "allocate_node"
    /\ ret.kind = "pointer"
    /\ op.blocks = 1
    /\ op.size > 0

\* C11: max_node_size() and max_array_size() both return next_capacity() of
\* the memory_stack referred to, the size of the block the list yields next,
\* and leave the stack as it is.
C11_MaxSizesAreNextCapacity ==
    [][(op'.name \in {"max_node_size", "max_array_size"}) =>
        /\ ret'.kind = "size"
        /\ ret'.value = next_capacity(cur_block_size_)
        /\ ret'.value = list_next_block_size(cur_block_size_)
        /\ Stack' = Stack
        /\ status' = status]_vars

\* C11 happens: max_node_size() asked while the current block is partly used,
\* so that what is left of it differs from the size of the next block
C11_Witness ==
    /\ op.name = "max_node_size"
    /\ ret.kind = "size"
    /\ Len(list_) = 2
    /\ ret.value # capacity(cur_, cur_end_)

\* C12: for the cursor of every state and every power-of-two alignment,
\* align_offset gives the padding of the documentation: 0 when the cursor is
\* a multiple of the alignment, else alignment - (cursor mod alignment); it
\* is always less than the alignment.
C12_AlignOffsetIsPadding ==
    \A alignment \in Alignments :
        /\ align_offset(cur_, alignment) = Padding(cur_, alignment)
        /\ align_offset(cur_, alignment) < alignment

\* C13: in every state reached by construction, allocate, top and unwind
\* with markers the caller may use, cur_ lies between the start and the end
\* of the block acquired last among those in the list, and cur_end_ is that
\* end.  (A call that went on past the failed assertion "block size too
\* small" has left the contract; its state is not one of these.)
C13_CursorInLastBlock ==
    (status # "overrun") =>
        /\ Len(list_) >= 1
        /\ LastBlock(list_).memory <= cur_
        /\ cur_ <= cur_end_
        /\ cur_end_ = LastBlock(list_).memory + LastBlock(list_).size

\* C13 happens: an unwind released a block and went back into the middle of
\* the block before it
C13_Witness ==
    /\ op.name = "unwind"
    /\ op.blocks < 0
    /\ status = "ok"
    /\ LastBlock(list_).memory < cur_
    /\ cur_ < cur_end_

\* C14: after every allocate(size, alignment) that returns a pointer, cur_ is
\* that pointer plus size; when the call acquired no block, cur_end_ and the
\* number of blocks are as before and capacity() is less by the distance from
\* the old cur_ to the pointer plus size.
C14_BumpsBySize ==
    [][(op'.name = "allocate" /\ ret'.kind = "pointer") =>
        /\ cur_' = ret'.ptr + op'.size
        /\ (op'.blocks = 0 =>
                /\ cur_end_' = cur_end_
                /\ Len(list_') = Len(list_)
                /\ list_' = list_
                /\ capacity(cur_', cur_end_') =
                        capacity(cur_, cur_end_) - ((ret'.ptr - cur_) + op'.size))]_vars

\* C14 happens: an allocate call in the current block that had to pad: the
\* marker was taken at an odd cursor, and the call returned the address after
\* it for alignment 2
C14_Witness ==
    /\ op.name = "allocate"
    /\ op.blocks = 0
    /\ op.alignment = 2
    /\ op.size > 0
    /\ status = "ok"
    /\ Len(markers) = 1
    /\ markers[1].since = "allocate"
    /\ markers[1].cur % 2 = 1
    /\ ret.ptr = markers[1].cur + 1
    /\ cur_ = ret.ptr + op.size

\* C15: when allocate acquires a block and padding plus size still exceed the
\* size of that block, the call ends in the failed assertion "block size too
\* small": it returns no pointer and does not leave cur_ past cur_end_.
\* Conversely, when the block acquired is at least size + alignment - 1 bytes
\* large, the assertion holds and the call returns.
C15_TooSmallAsserts ==
    [][(op'.name = "allocate" /\ op'.blocks = 1) =>
        LET new == LastBlock(list_')
        IN  /\ (Padding(new.memory, op'.alignment) + op'.size > new.size =>
                    /\ status' = "assert_failed"
                    /\ ret'.kind # "pointer"
                    /\ cur_' <= cur_end_')
            /\ (new.size >= op'.size + op'.alignment - 1 =>
                    /\ status' = "ok"
                    /\ ret'.kind = "pointer")]_vars

\* C16: unwind with a marker that is stale (its block was released) or ahead
\* of the stack (m.index > number of blocks - 1, or the same block and
\* m.cur > cur_) is caught by an assertion: the call ends in the failed
\* assertion, releases no block and leaves cur_ and cur_end_ alone.
C16_MisuseAsserts ==
    [][(/\ op'.name = "unwind"
        /\ ~Usable(markers[op'.marker])
        /\ Stale(markers[op'.marker]) \/ Ahead(markers[op'.marker])) =>
        /\ status' = "assert_failed"
        /\ list_' = list_
        /\ cur_' = cur_
        /\ cur_end_' = cur_end_]_vars

\* C16 as amended: unwind checks nothing.  With a marker that is stale or
\* ahead of the stack and has m.index <= number of blocks - 1, no assertion
\* fails: the call returns, has released the blocks after block m.index and
\* has set cur_ and cur_end_ to the marker's.
C16_MisuseUnchecked ==
    [][(/\ op'.name = "unwind"
        /\ ~Usable(markers[op'.marker])
        /\ Stale(markers[op'.marker]) \/ Ahead(markers[op'.marker])
        /\ markers[op'.marker].m.index <= Len(list_) - 1) =>
        LET m == markers[op'.marker].m
        IN  /\ status' = "misused"
            /\ ret' = Void
            /\ list_' = SubSeq(list_, 1, m.index + 1)
            /\ cur_' = m.cur
            /\ cur_end_' = m.cur_end]_vars

\* C16 happens: unwind to m2 after its block was released by unwind to m1 and
\* a block was acquired anew; the cursor is then m2's, ahead of where it was
C16_Witness ==
    /\ op.name = "unwind"
    /\ op.since = "released"
    /\ status = "misused"
    /\ Len(list_) = 2
    /\ cur_ = markers[op.marker].m.cur
    /\ cur_ > LastBlock(list_).memory

\* C17: the list always holds a block.  Right after construction it holds
\* one, and capacity() is the size of that block, the size the constructor
\* was given; in every state reached by allocate, top and unwind with the
\* stack's own markers it holds at least one, so that the index top() stores,
\* number of blocks - 1, does not wrap around, and unwind never releases the
\* first block.
C17_AtLeastOneBlock ==
    /\ [](/\ Len(list_) >= 1
          /\ (op.name = "memory_stack" =>
                /\ Len(list_) = 1
                /\ capacity(cur_, cur_end_) = list_[1].size
                /\ list_[1].size = op.size)
          /\ \A i \in 1..Len(markers) :
                /\ markers[i].m.index + 1 = Len(markers[i].list)
                /\ markers[i].m.index <= Len(list_) - 1)
    /\ [][/\ Len(list_') >= 1
          /\ list_'[1] = list_[1]
          /\ (op'.name = "top" => ret'.marker.index + 1 = Len(list_))
          /\ (op'.name = "unwind" => Len(list_') = markers[op'.marker].m.index + 1)]_vars

\* C17 happens: unwind to a marker taken right after construction has
\* released every block but the first
C17_Witness ==
    /\ op.name = "unwind"
    /\ op.blocks < 0
    /\ Len(list_) = 1
    /\ markers[1].m.index = 0
    /\ cur_ = list_[1].memory
    /\ capacity(cur_, cur_end_) = list_[1].size

\* C18: across allocate, top and unwind with markers the caller may use, the
\* ranges allocate returned and the stack was not unwound past are pairwise
\* disjoint, and each lies within one block that is in the list, those in
\* blocks before the current one included.
C18_LiveRangesDisjoint ==
    (status # "overrun") =>
        /\ \A i \in 1..Len(live) :
                \E k \in 1..Len(list_) :
                    /\ list_[k].memory <= live[i].memory
                    /\ live[i].memory + live[i].size <= list_[k].memory + list_[k].size
        /\ \A i, j \in 1..Len(live) : i < j => ~Overlaps(live[i], live[j])

\* C18 happens: after an unwind to the marker, which gave up the ranges
\* allocated since, ranges are in use in the first block and, allocated
\* anew, in the second
C18_Witness ==
    /\ status = "ok"
    /\ Len(list_) = 2
    /\ Len(live) >= 2
    /\ live[1].memory < list_[1].memory + list_[1].size
    /\ list_[1].memory <= live[1].memory
    /\ list_[2].memory <= live[Len(live)].memory
    /\ op.name = "allocate"
    /\ Len(markers) = 1
    /\ markers[1].since = "other"
    /\ markers[1].live < Len(live)

\* C19: with m1 taken before m2 and allocations in between and after, m1
\* keeps to the precondition of unwind whatever the caller unwinds to: after
\* unwind(m2) as after unwind(m1), m1.index <= number of blocks - 1 and block
\* m1.index is the block m1 was taken in; unwind releases no block an earlier
\* marker refers to; and every unwind(m1) brings back the list, cur_ and
\* cur_end_ of the moment m1 was taken.  (Said of the caller that unwinds to
\* markers it may use; once it has used another one, nothing is promised.)
C19_NestedMarkers ==
    /\ [](\A k \in 1..Len(markers) :
            (Usable(markers[k]) /\ status \notin {"misused", "undefined"}) =>
                /\ markers[k].m.index <= Len(list_) - 1
                /\ list_[markers[k].m.index + 1] = markers[k].list[markers[k].m.index + 1])
    /\ [][(op'.name = "unwind" /\ Usable(markers[op'.marker])) =>
            /\ list_' = markers[op'.marker].list
            /\ cur_' = markers[op'.marker].cur
            /\ cur_end_' = markers[op'.marker].cur_end
            /\ \A k \in 1..op'.marker :
                    Usable(markers[k]) =>
                        /\ Usable(markers'[k])
                        /\ markers[k].m.index <= Len(list_') - 1
                        /\ Len(list_') >= Len(markers[k].list)
                        /\ SubSeq(list_', 1, Len(markers[k].list)) = markers[k].list]_vars

\* C19 happens: unwind(m2) has released a block acquired after m2, and m1,
\* taken before m2 and below it, is still held and usable
C19_Witness ==
    /\ op.name = "unwind"
    /\ op.marker = 2
    /\ op.blocks < 0
    /\ status = "ok"
    /\ Len(markers) = 2
    /\ Usable(markers[1])
    /\ Usable(markers[2])
    /\ markers[1].m.cur < markers[2].m.cur

====
